---- MODULE Spec2Model ----
(***************************************************************************)
(* io-uring-echo: a single-threaded completion-queue driven echo server.   *)
(*                                                                         *)
(*   buffer.rs  BufferPool / Guard : fixed arena of `count` slots, free    *)
(*              list of slot indexes, guard returned to the list on drop   *)
(*   common.rs  Route <-> u64      : routing tag carried in user_data      *)
(*   client.rs  Client::handle     : read -> write -> read ... per socket  *)
(*   server.rs  Server::run        : one completion per loop iteration     *)
(*                                                                         *)
(* The kernel is the environment: it holds the submitted operations in     *)
(* `inflight`, completes them in any order and appends the completions to  *)
(* the completion queue `cq`.                                              *)
(***************************************************************************)
EXTENDS Integers, Sequences, FiniteSets, TLC

VARIABLES
    count,              \* BufferPool.count
    free_indexes,       \* BufferPool.free_indexes : Vec<u16>, used as a stack
    pc,                 \* position of Server::run: "start", "loop", "panicked"
    clients,            \* Server.clients : HashMap<Id, Task>
    client_id_counter,  \* Server.client_id_counter : u32
    sq,                 \* submission queue: entries pushed and not yet submitted
    inflight,           \* operations the kernel has taken and not yet completed
    cq,                 \* completion queue, in delivery order
    open_fds,           \* sockets accepted by the kernel and not yet closed
    eof,                \* sockets whose peer has closed
    last,               \* what the latest step did
    guards,             \* guards held by a direct user of the pool
    acquired,           \* result of that user's latest acquire()
    codec               \* a route, its u64 token and the route decoded from it

vars == <<count, free_indexes, pc, clients, client_id_counter, sq, inflight, cq,
          open_fds, eof, last, guards, acquired, codec>>

poolVars == <<count, free_indexes>>
serverVars == <<pc, clients, client_id_counter, sq, inflight, cq, open_fds, eof,
                last>>
userVars == <<guards, acquired>>

(***************************************************************************)
(* Bounds of the model.                                                    *)
(***************************************************************************)
\* slots of the server's pool (BUFFERS_COUNT is 8192 in server.rs)
MaxBuffers == 2
\* bytes per slot (BUFFER_SIZE is 32768 in server.rs)
MaxBufferSize == 2
\* entries of the submission queue (URING_BUFFER_SIZE is 1024 in server.rs)
MaxSqEntries == 2
\* completions the kernel queues before the reactor takes one
MaxCq == 1
\* connections the kernel hands to the server
MaxAccepts == 2
\* largest `count` given to BufferPool::new by a direct user of the pool
MaxPoolCount == 4

\* Option::None; Some(x) is x itself
None == <<>>

Range(s) == {s[i] : i \in DOMAIN s}

Min(S) == CHOOSE x \in S : \A y \in S : x <= y

(***************************************************************************)
(* buffer.rs                                                               *)
(***************************************************************************)
BUFFER_SIZE == MaxBufferSize

\* (0..count).collect::<Vec<_>>()
FreshIndexes(n) == [i \in 1..n |-> i - 1]

\* Vec::pop on a non-empty vector: the last element, and what is left
VecPop(v) == v[Len(v)]

VecPopRest(v) == SubSeq(v, 1, Len(v) - 1)

\* the Guard that acquire() builds around slot idx
MakeGuard(idx) ==
    [idx |-> idx, start |-> idx * BUFFER_SIZE, end |-> idx * BUFFER_SIZE + BUFFER_SIZE]

\* acquire() that reads the last index and leaves it on the free list
PoolAcquireNoPop(free) ==
    IF free = <<>>
      THEN [guard |-> None, free |-> free]
      ELSE [guard |-> MakeGuard(VecPop(free)), free |-> free]

\* BufferPool::acquire: [guard, free] with guard = None when the list is empty
PoolAcquire(free) ==
    IF free = <<>>
      THEN [guard |-> None, free |-> free]
      ELSE [guard |-> MakeGuard(VecPop(free)), free |-> VecPopRest(free)]

\* a drop that forgets the index
GuardDropLeak(free, guard) == free

\* a drop that runs twice
GuardDropTwice(free, guard) == Append(Append(free, guard.idx), guard.idx)

\* Drop for Guard: the index goes back on the free list
GuardDrop(free, guard) == Append(free, guard.idx)

\* the bytes a guard gives access to: &self.buffer[self.start..self.end]
GuardBytes(guard) == guard.start .. (guard.end - 1)

(***************************************************************************)
(* common.rs: Route and its transmute to and from u64.                     *)
(*                                                                         *)
(* A u32 is written as its two 16-bit halves <<low, high>>, a u64 as four  *)
(* 16-bit quarters, least significant first, so that the whole 32-bit id   *)
(* space (up to 2^32 - 1) can be written down.  #[repr(u32)] lays a Route  *)
(* out as a u32 discriminant at offset 0 followed by the u32 payload at    *)
(* offset 4; Route::Accept has no payload and bytes 4..8 are padding whose *)
(* content is whatever was in memory (`pad`).  transmute reads those eight *)
(* bytes as a native-endian u64.                                           *)
(***************************************************************************)
RouteAccept == [cat |-> "Accept"]
RouteClientRead(id) == [cat |-> "ClientRead", id |-> id]
RouteClientWrite(id) == [cat |-> "ClientWrite", id |-> id]

\* the discriminant of each variant, in declaration order
Discriminant(cat) ==
    CASE cat = "Accept" -> <<0, 0>>
      [] cat = "ClientRead" -> <<1, 0>>
      [] cat = "ClientWrite" -> <<2, 0>>

\* an encoding that keeps only the low 16 bits of the id
RouteToU64Narrow(route, pad, big_endian) ==
    LET tag == Discriminant(route.cat)
        payload == IF route.cat = "Accept" THEN pad ELSE <<route.id[1], 0>>
    IN  IF big_endian THEN payload \o tag ELSE tag \o payload

\* From<Route> for u64
RouteToU64(route, pad, big_endian) ==
    LET tag == Discriminant(route.cat)
        payload == IF route.cat = "Accept" THEN pad ELSE route.id
    IN  IF big_endian THEN payload \o tag ELSE tag \o payload

\* From<u64> for Route; a discriminant above 2 is not a Route at all
U64ToRoute(token, big_endian) ==
    LET tag == IF big_endian THEN SubSeq(token, 3, 4) ELSE SubSeq(token, 1, 2)
        payload == IF big_endian THEN SubSeq(token, 1, 2) ELSE SubSeq(token, 3, 4)
    IN  CASE tag = <<0, 0>> -> RouteAccept
          [] tag = <<1, 0>> -> RouteClientRead(payload)
          [] tag = <<2, 0>> -> RouteClientWrite(payload)
          [] OTHER -> [cat |-> "Invalid"]

\* 16-bit halves used to build the ids the codec is tried on
HalfSamples == {0, 1, 2^16 - 1}
IdSamples == {<<lo, hi>> : lo \in HalfSamples, hi \in HalfSamples}
RouteSamples ==
    {RouteAccept} \cup {RouteClientRead(i) : i \in IdSamples}
                  \cup {RouteClientWrite(i) : i \in IdSamples}

(***************************************************************************)
(* common.rs: Id = u32, written as <<low, high>> 16-bit halves.            *)
(***************************************************************************)
U32Zero == <<0, 0>>

\* u32::MAX
U32Max == <<2^16 - 1, 2^16 - 1>>

\* an increment that is lost
U32IncLost(x) == x

\* x + 1 on a u32, wrapping at 2^32
U32Inc(x) ==
    IF x[1] < 2^16 - 1 THEN <<x[1] + 1, x[2]>>
    ELSE IF x[2] < 2^16 - 1 THEN <<0, x[2] + 1>>
    ELSE U32Zero

(***************************************************************************)
(* client.rs                                                               *)
(***************************************************************************)
\* a tag that forgets the id
RouteClientNoId(id) == [cat |-> "Client", id |-> U32Zero]

\* the tag client.rs puts on its reads and on its writes
RouteClient(id) == [cat |-> "Client", id |-> id]

\* Client::new, at the first await of Client::handle
NewClient(id, socket, buffer) ==
    [id |-> id, socket |-> socket, buffer |-> buffer, state |-> "read", write_len |-> 0]

\* the entry Client::read builds: the whole slot, by its index
ReadFixedSqe(client) ==
    [op |-> "ReadFixed", fd |-> client.socket, addr |-> client.buffer.start,
     len |-> client.buffer.end - client.buffer.start,
     buf_index |-> client.buffer.idx, user_data |-> RouteClient(client.id)]

\* a write of the whole slot instead of the bytes received
WriteFixedSqeWholeSlot(client, len) ==
    [op |-> "WriteFixed", fd |-> client.socket, addr |-> client.buffer.start,
     len |-> client.buffer.end - client.buffer.start,
     buf_index |-> client.buffer.idx, user_data |-> RouteClient(client.id)]

\* the entry Client::write builds for the first `len` bytes of the slot
WriteFixedSqe(client, len) ==
    [op |-> "WriteFixed", fd |-> client.socket, addr |-> client.buffer.start,
     len |-> len,
     buf_index |-> client.buffer.idx, user_data |-> RouteClient(client.id)]

\* a push and submit whose errors are ignored
PushSubmitUnchecked(queue, kernel, sqe, submit_ok) ==
    IF Len(queue) >= MaxSqEntries
      THEN [ok |-> TRUE, sq |-> queue, inflight |-> kernel, pushed |-> <<>>]
    ELSE IF submit_ok
      THEN [ok |-> TRUE, sq |-> <<>>, inflight |-> kernel \cup Range(Append(queue, sqe)),
            pushed |-> <<sqe>>]
      ELSE [ok |-> TRUE, sq |-> Append(queue, sqe), inflight |-> kernel,
            pushed |-> <<sqe>>]

\* ring.submission().push(&sqe)?; ring.submit()?
\* push fails on a full queue; a failed submit leaves the entry in the queue
PushSubmit(queue, kernel, sqe, submit_ok) ==
    IF Len(queue) >= MaxSqEntries
      THEN [ok |-> FALSE, sq |-> queue, inflight |-> kernel, pushed |-> <<>>]
    ELSE IF submit_ok
      THEN [ok |-> TRUE, sq |-> <<>>, inflight |-> kernel \cup Range(Append(queue, sqe)),
            pushed |-> <<sqe>>]
      ELSE [ok |-> FALSE, sq |-> Append(queue, sqe), inflight |-> kernel,
            pushed |-> <<sqe>>]

\* a match that takes a zero-length read for data
ReadResultNoEof(result) == IF result < 0 THEN "error" ELSE "data"

\* the match on cqe.result() in Client::read
ReadResult(result) ==
    CASE result < 0 -> "error"
      [] result = 0 -> "disconnected"
      [] OTHER -> "data"

\* a match that lets a short write pass
WriteResultShortOk(result, buffer_len) ==
    CASE result < 0 -> "error"
      [] result = 0 -> "disconnected"
      [] OTHER -> "ok"

\* the match on cqe.result() in Client::write
WriteResult(result, buffer_len) ==
    CASE result < 0 -> "error"
      [] result = 0 -> "disconnected"
      [] result = buffer_len -> "ok"
      [] OTHER -> "incomplete"

\* The future of Client::handle resumed with a completion.  It is parked at
\* the await of read() or of write(); it either fails (Ready(Err)) or pushes
\* its next operation and parks again (Pending).
ClientPoll(client, result, queue, kernel, submit_ok) ==
    LET next_sqe ==
            IF client.state = "read"
              THEN IF ReadResult(result) = "data"
                     THEN WriteFixedSqe(client, result) ELSE None
              ELSE IF WriteResult(result, client.write_len) = "ok"
                     THEN ReadFixedSqe(client) ELSE None
        ps == PushSubmit(queue, kernel, next_sqe, submit_ok)
    IN  IF next_sqe = None
          THEN [poll |-> "err", client |-> client, sq |-> queue, inflight |-> kernel,
                pushed |-> <<>>]
        ELSE IF ~ps.ok
          THEN [poll |-> "err", client |-> client, sq |-> ps.sq,
                inflight |-> ps.inflight, pushed |-> ps.pushed]
          ELSE [poll |-> "pending",
                client |-> IF client.state = "read"
                             THEN [client EXCEPT !.state = "write", !.write_len = result]
                             ELSE [client EXCEPT !.state = "read", !.write_len = 0],
                sq |-> ps.sq, inflight |-> ps.inflight, pushed |-> ps.pushed]

(***************************************************************************)
(* server.rs                                                               *)
(***************************************************************************)
EmptyMap == [k \in {} |-> None]

\* an insert that drops every other entry
MapInsertAlone(map, key, value) == [k \in {key} |-> value]

\* HashMap::insert and HashMap::remove
MapInsert(map, key, value) ==
    [k \in DOMAIN map \cup {key} |-> IF k = key THEN value ELSE map[k]]

\* a removal that empties the table
MapRemoveAll(map, key) == EmptyMap

\* a removal that leaves the finished task in the table
MapRemoveKeep(map, key) == map

MapRemove(map, key) == [k \in DOMAIN map \ {key} |-> map[k]]

\* the entry Server::start_accepting builds
AcceptMultiSqe ==
    [op |-> "AcceptMulti", fd |-> 3, addr |-> 0, len |-> 0, buf_index |-> 0,
     user_data |-> RouteAccept]

\* descriptors taken before the first accept: stdio, the listener, the ring
ReservedFds == 0..4

NoStep ==
    [handler |-> "none", cqe |-> None, id |-> None, state |-> "none",
     outcome |-> "none", pushed |-> <<>>, before |-> None]

\* the server's fields and the kernel's operations, as a step finds them
Fields ==
    [free |-> free_indexes, clients |-> clients, counter |-> client_id_counter,
     sq |-> sq, inflight |-> inflight, cq |-> cq, open_fds |-> open_fds]

KernelStep == [NoStep EXCEPT !.handler = "kernel"]

\* a handler that submits the accept again whenever it creates no connection
AcceptNothingRearm(outcome, closed) ==
    [free |-> free_indexes, clients |-> clients, counter |-> client_id_counter,
     sq |-> sq, inflight |-> inflight \cup {AcceptMultiSqe}, closed |-> closed,
     id |-> None, outcome |-> outcome, pushed |-> <<>>]

\* handle_accept when it creates no connection: nothing changes but the
\* sockets in `closed`
AcceptNothing(outcome, closed) ==
    [free |-> free_indexes, clients |-> clients, counter |-> client_id_counter,
     sq |-> sq, inflight |-> inflight, closed |-> closed, id |-> None,
     outcome |-> outcome, pushed |-> <<>>]

\* a handler that counts the failed accept as a connection
AcceptErrorTakesId(result) ==
    [AcceptNothing("accept_error", {}) EXCEPT !.counter = U32Inc(client_id_counter)]

\* cqe.result() < 0: the error is logged
AcceptError(result) == AcceptNothing("accept_error", {})

\* a rejection that never closes the socket
AcceptRejectLeak(fd) == AcceptNothing("rejected", {})

\* no free buffer: the OwnedFd goes out of scope and the socket is closed
AcceptReject(fd) == AcceptNothing("rejected", {fd})

\* Server::handle_accept: the values of the server's fields after the call,
\* the sockets it closed, and what it did
HandleAccept(cqe, submit_ok) ==
    LET fd == cqe.result
        acq == PoolAcquire(free_indexes)
        id == client_id_counter
        client == NewClient(id, fd, acq.guard)
        ps == PushSubmit(sq, inflight, ReadFixedSqe(client), submit_ok)
        old == IF id \in DOMAIN clients THEN {clients[id]} ELSE {}
    IN  IF cqe.result < 0 THEN AcceptError(cqe.result)
        ELSE IF acq.guard = None THEN AcceptReject(fd)
        ELSE IF ps.ok
          THEN [free |-> IF old = {} THEN acq.free
                         ELSE GuardDrop(acq.free, clients[id].buffer),
                clients |-> MapInsert(clients, id, client),
                counter |-> U32Inc(id), sq |-> ps.sq, inflight |-> ps.inflight,
                closed |-> {c.socket : c \in old}, id |-> id,
                outcome |-> "inserted", pushed |-> ps.pushed]
          ELSE [free |-> GuardDrop(acq.free, acq.guard), clients |-> clients,
                counter |-> U32Inc(id), sq |-> ps.sq, inflight |-> ps.inflight,
                closed |-> {fd}, id |-> id, outcome |-> "failed",
                pushed |-> ps.pushed]

\* a lookup that unwraps: the reactor aborts on an id that is not in the table
ClientMissingAborts(id) ==
    [free |-> free_indexes, clients |-> clients, sq |-> sq,
     inflight |-> inflight, closed |-> {}, state |-> "none",
     outcome |-> "missing", pushed |-> <<>>, abort |-> TRUE]

\* self.clients.get_mut(&id) is None: a message is printed
ClientMissing(id) ==
    [free |-> free_indexes, clients |-> clients, sq |-> sq,
     inflight |-> inflight, closed |-> {}, state |-> "none",
     outcome |-> "missing", pushed |-> <<>>, abort |-> FALSE]

\* Server::handle_client
HandleClient(cqe, id, submit_ok) ==
    LET task == clients[id]
        polled == ClientPoll(task, cqe.result, sq, inflight, submit_ok)
    IN  IF id \notin DOMAIN clients THEN ClientMissing(id)
        ELSE IF polled.poll = "pending"
          THEN [free |-> free_indexes,
                clients |-> MapInsert(clients, id, polled.client),
                sq |-> polled.sq, inflight |-> polled.inflight, closed |-> {},
                state |-> task.state, outcome |-> "pending",
                pushed |-> polled.pushed, abort |-> FALSE]
          ELSE [free |-> GuardDrop(free_indexes, task.buffer),
                clients |-> MapRemove(clients, id),
                sq |-> polled.sq, inflight |-> polled.inflight,
                closed |-> {task.socket},
                state |-> task.state, outcome |-> "removed",
                pushed |-> polled.pushed, abort |-> FALSE]

(***************************************************************************)
(* The server: state after Server::bind, then Server::run.                 *)
(***************************************************************************)
NoCodec == [big_endian |-> FALSE, a |-> None, b |-> None, ta |-> None, tb |-> None,
            da |-> None, db |-> None]

\* Server::bind: empty table, counter 0, fresh pool
ServerInit ==
    /\ pc = "start"
    /\ clients = EmptyMap
    /\ client_id_counter = U32Zero
    /\ sq = <<>>
    /\ inflight = {}
    /\ cq = <<>>
    /\ open_fds = {}
    /\ eof = {}
    /\ last = NoStep

Init ==
    /\ count \in 1..MaxBuffers
    /\ free_indexes = FreshIndexes(count)
    /\ ServerInit
    /\ guards = {}
    /\ acquired = <<>>
    /\ codec = NoCodec

\* Server::start_accepting; both failures are .expect() panics
StartAccepting ==
    /\ pc = "start"
    /\ \E submit_ok \in BOOLEAN :
         LET ps == PushSubmit(sq, inflight, AcceptMultiSqe, submit_ok)
         IN  /\ pc' = IF ps.ok THEN "loop" ELSE "panicked"
             /\ sq' = ps.sq
             /\ inflight' = ps.inflight
             /\ last' = [NoStep EXCEPT !.handler = "start", !.pushed = ps.pushed]
    /\ UNCHANGED <<poolVars, clients, client_id_counter, cq, open_fds, eof, userVars,
                   codec>>

\* a completion queue entry; `op` records which operation it completes
Cqe(user_data, result, more, op) ==
    [user_data |-> user_data, result |-> result, more |-> more, op |-> op]

\* the lowest free descriptor
NewFd == Min((0..(5 + MaxAccepts)) \ (ReservedFds \cup open_fds))

\* the kernel hands over a connection only while fewer than MaxAccepts ids
\* are assigned or about to be
IdsLeft ==
    /\ client_id_counter[2] = 0
    /\ client_id_counter[1]
         + Cardinality({i \in DOMAIN cq : cq[i].user_data = RouteAccept /\ cq[i].result >= 0})
         < MaxAccepts

\* The multi-shot accept yields one completion per inbound connection (while
\* `ids_left`), or an error; without the `more` flag the operation has ended.
KernelAcceptIf(ids_left, cq_max) ==
    /\ AcceptMultiSqe \in inflight
    /\ Len(cq) < cq_max
    /\ \E more \in BOOLEAN :
         /\ \/ /\ ids_left
               /\ cq' = Append(cq, Cqe(RouteAccept, NewFd, more, "AcceptMulti"))
               /\ open_fds' = open_fds \cup {NewFd}
            \/ /\ cq' = Append(cq, Cqe(RouteAccept, -24, more, "AcceptMulti"))
               /\ UNCHANGED open_fds
         /\ inflight' = IF more THEN inflight ELSE inflight \ {AcceptMultiSqe}
    /\ last' = KernelStep
    /\ UNCHANGED <<poolVars, pc, clients, client_id_counter, sq, eof, userVars, codec>>

KernelAccept == KernelAcceptIf(IdsLeft, MaxCq)

\* The results the kernel reports for a read or a write, by case: an error; on
\* a closed descriptor EBADF; a read gives 0 at end of stream and otherwise
\* from 1 byte up to the whole slot; a write gives from 0 up to the length
\* asked for.  The shortest and the longest of each range are tried.
CompletionResults(sqe) ==
    IF sqe.fd \notin open_fds THEN {-9}
    ELSE IF sqe.op = "ReadFixed"
      THEN (IF sqe.fd \in eof THEN {0} ELSE {1, sqe.len}) \cup {-104}
      ELSE {0, sqe.len - 1, sqe.len, -104}

\* the kernel completes one read or write while fewer than cq_max completions
\* are waiting
KernelCompleteIf(sqe, cq_max) ==
    /\ sqe \in inflight
    /\ sqe.op # "AcceptMulti"
    /\ Len(cq) < cq_max
    /\ \E result \in CompletionResults(sqe) :
         cq' = Append(cq, Cqe(sqe.user_data, result, FALSE, sqe.op))
    /\ inflight' = inflight \ {sqe}
    /\ last' = KernelStep
    /\ UNCHANGED <<poolVars, pc, clients, client_id_counter, sq, open_fds, eof,
                   userVars, codec>>

KernelComplete(sqe) == KernelCompleteIf(sqe, MaxCq)

\* the peer of a connection closes its end
PeerClose ==
    /\ \E id \in DOMAIN clients :
         /\ clients[id].socket \notin eof
         /\ eof' = eof \cup {clients[id].socket}
    /\ last' = KernelStep
    /\ UNCHANGED <<poolVars, pc, clients, client_id_counter, sq, inflight, cq,
                   open_fds, userVars, codec>>

\* a queue that hands out its newest entry
CompletionNewest(queue) == queue[Len(queue)]

\* ring.completion().next() on a queue that is not empty: its oldest entry
CompletionNext(queue) == Head(queue)

\* `self.client_id_counter += 1` is reached with the counter at u32::MAX: a
\* build with overflow checks panics there, a build without them wraps
CounterOverflows(cqe) ==
    /\ cqe.result >= 0
    /\ free_indexes # <<>>
    /\ client_id_counter = U32Max

\* one iteration of Server::run whose completion is tagged Route::Accept
RunAccept ==
    /\ pc = "loop"
    /\ cq # <<>>
    /\ CompletionNext(cq).user_data = RouteAccept
    /\ \E submit_ok \in BOOLEAN, overflow_checks \in BOOLEAN :
         LET h == HandleAccept(CompletionNext(cq), submit_ok)
         IN  IF overflow_checks /\ CounterOverflows(CompletionNext(cq))
               THEN /\ pc' = "panicked"
                    /\ last' = [handler |-> "accept", cqe |-> CompletionNext(cq), id |-> None,
                                state |-> "none", outcome |-> "panicked",
                                pushed |-> <<>>, before |-> Fields]
                    /\ UNCHANGED <<free_indexes, clients, client_id_counter, sq,
                                   inflight, open_fds, eof>>
               ELSE /\ pc' = pc
                    /\ free_indexes' = h.free
                    /\ clients' = h.clients
                    /\ client_id_counter' = h.counter
                    /\ sq' = h.sq
                    /\ inflight' = h.inflight
                    /\ open_fds' = open_fds \ h.closed
                    /\ eof' = eof \ h.closed
                    /\ last' = [handler |-> "accept", cqe |-> CompletionNext(cq), id |-> h.id,
                                state |-> "none", outcome |-> h.outcome,
                                pushed |-> h.pushed, before |-> Fields]
    /\ cq' = Tail(cq)
    /\ UNCHANGED <<count, userVars, codec>>

\* one iteration of Server::run whose completion is tagged Route::Client(id)
RunClient ==
    /\ pc = "loop"
    /\ cq # <<>>
    /\ CompletionNext(cq).user_data.cat = "Client"
    /\ \E submit_ok \in BOOLEAN :
         LET id == CompletionNext(cq).user_data.id
             h == HandleClient(CompletionNext(cq), id, submit_ok)
         IN  /\ pc' = IF h.abort THEN "panicked" ELSE pc
             /\ free_indexes' = h.free
             /\ clients' = h.clients
             /\ sq' = h.sq
             /\ inflight' = h.inflight
             /\ open_fds' = open_fds \ h.closed
             /\ eof' = eof \ h.closed
             /\ last' = [handler |-> "client", cqe |-> CompletionNext(cq), id |-> id,
                         state |-> h.state, outcome |-> h.outcome,
                         pushed |-> h.pushed, before |-> Fields]
    /\ cq' = Tail(cq)
    /\ UNCHANGED <<count, client_id_counter, userVars, codec>>

Next ==
    \/ StartAccepting
    \/ KernelAccept
    \/ \E sqe \in inflight : KernelComplete(sqe)
    \/ PeerClose
    \/ RunAccept
    \/ RunClient

Spec == Init /\ [][Next]_vars

(***************************************************************************)
(* The server over its whole lifetime.  Between two connections that the   *)
(* model follows step by step, any number of connections may come and go:  *)
(* each is accepted into a free slot, its peer closes, its read completes  *)
(* with 0 and it is removed, which leaves the descriptor closed, the slot  *)
(* back on top of the free list and the counter one higher.                *)
(* ManyConnections is as many of those as it takes to bring the counter to *)
(* u32::MAX, taken while the queues are empty and the kernel holds only    *)
(* the accept and the read of each live connection.                        *)
(***************************************************************************)
ManyConnections ==
    /\ pc = "loop"
    /\ AcceptMultiSqe \in inflight
    /\ cq = <<>>
    /\ sq = <<>>
    /\ free_indexes # <<>>
    /\ inflight = {AcceptMultiSqe} \cup {ReadFixedSqe(clients[id]) : id \in DOMAIN clients}
    /\ client_id_counter # U32Max
    /\ client_id_counter # U32Zero
    /\ client_id_counter' = U32Max
    /\ last' = KernelStep
    /\ UNCHANGED <<poolVars, pc, clients, sq, inflight, cq, open_fds, eof, userVars,
                   codec>>

\* the successful accept completions waiting in the completion queue
AcceptsQueued ==
    Cardinality({i \in DOMAIN cq : cq[i].user_data = RouteAccept /\ cq[i].result >= 0})

\* the kernel hands over a connection while the counter is at u32::MAX or
\* below MaxAccepts - 1
IdsLeftWrap ==
    IF client_id_counter = U32Max THEN AcceptsQueued < MaxAccepts
    ELSE /\ client_id_counter[2] = 0
         /\ client_id_counter[1] + AcceptsQueued < MaxAccepts - 1

KernelAcceptWrap == KernelAcceptIf(IdsLeftWrap, MaxCq)

NextWrap ==
    \/ StartAccepting
    \/ KernelAcceptWrap
    \/ \E sqe \in inflight : KernelComplete(sqe)
    \/ PeerClose
    \/ RunAccept
    \/ RunClient
    \/ ManyConnections

SpecWrap == Init /\ [][NextWrap]_vars

(***************************************************************************)
(* The loop of Server::run with a queue of up to MaxCq + 1 completions and *)
(* a pool of one slot.  wait_event calls enter() with no flags, which does *)
(* not wait: on an empty completion queue next() is None and the iteration *)
(* does nothing (RunIdle).                                                 *)
(***************************************************************************)
InitLoop ==
    /\ count = 1
    /\ free_indexes = FreshIndexes(count)
    /\ ServerInit
    /\ guards = {}
    /\ acquired = <<>>
    /\ codec = NoCodec

\* let Some(cqe) = self.wait_event() else { continue };
RunIdle ==
    /\ pc = "loop"
    /\ cq = <<>>
    /\ last' = [NoStep EXCEPT !.handler = "idle", !.before = Fields]
    /\ UNCHANGED <<poolVars, pc, clients, client_id_counter, sq, inflight, cq,
                   open_fds, eof, userVars, codec>>

KernelAcceptLoop == KernelAcceptIf(IdsLeft, MaxCq + 1)

KernelCompleteLoop(sqe) == KernelCompleteIf(sqe, MaxCq + 1)

NextLoop ==
    \/ StartAccepting
    \/ KernelAcceptLoop
    \/ \E sqe \in inflight : KernelCompleteLoop(sqe)
    \/ PeerClose
    \/ RunAccept
    \/ RunClient
    \/ RunIdle

SpecLoop == InitLoop /\ [][NextLoop]_vars

(***************************************************************************)
(* The server of Spec, where a pool of one slot sees one connection more   *)
(* than the submission queue has entries: every connection whose submit    *)
(* fails leaves its entry in the queue, so the last one finds the queue    *)
(* full and its push fails.                                                *)
(***************************************************************************)
IdsLeftFull ==
    /\ client_id_counter[2] = 0
    /\ client_id_counter[1] + AcceptsQueued
         < (IF count = 1 THEN MaxSqEntries + 1 ELSE MaxAccepts)

KernelAcceptFull == KernelAcceptIf(IdsLeftFull, MaxCq)

NextFull ==
    \/ StartAccepting
    \/ KernelAcceptFull
    \/ \E sqe \in inflight : KernelComplete(sqe)
    \/ PeerClose
    \/ RunAccept
    \/ RunClient

SpecFull == Init /\ [][NextFull]_vars

(***************************************************************************)
(* The pool on its own: a user that acquires guards and drops them in any  *)
(* order, for every pool size up to MaxPoolCount.  `acquired` keeps the    *)
(* latest three calls.                                                     *)
(***************************************************************************)
LastThree(log) == IF Len(log) <= 3 THEN log ELSE SubSeq(log, Len(log) - 2, Len(log))

InitPool ==
    /\ count \in 0..MaxPoolCount
    /\ free_indexes = FreshIndexes(count)
    /\ ServerInit
    /\ guards = {}
    /\ acquired = <<>>
    /\ codec = NoCodec

\* let guard = pool.acquire();
UserAcquire ==
    LET r == PoolAcquire(free_indexes)
    IN  /\ free_indexes' = r.free
        /\ guards' = IF r.guard = None THEN guards ELSE guards \cup {r.guard}
        /\ acquired' = LastThree(Append(acquired,
                          [op |-> "acquire", guard |-> r.guard,
                           live |-> Cardinality(guards)]))
        /\ UNCHANGED <<count, serverVars, codec>>

\* drop(guard);
UserDrop ==
    /\ \E g \in guards :
         /\ free_indexes' = GuardDrop(free_indexes, g)
         /\ guards' = guards \ {g}
         /\ acquired' = LastThree(Append(acquired,
                           [op |-> "drop", guard |-> g, live |-> Cardinality(guards)]))
    /\ UNCHANGED <<count, serverVars, codec>>

NextPool == UserAcquire \/ UserDrop

SpecPool == InitPool /\ [][NextPool]_vars

(***************************************************************************)
(* The codec on its own: two routes are encoded on one platform and the    *)
(* tokens decoded again.                                                   *)
(***************************************************************************)
InitCodec ==
    /\ count = 0
    /\ free_indexes = FreshIndexes(count)
    /\ ServerInit
    /\ guards = {}
    /\ acquired = <<>>
    /\ codec \in [big_endian : BOOLEAN, a : RouteSamples, b : RouteSamples,
                  ta : {None}, tb : {None}, da : {None}, db : {None}]

\* let token: u64 = route.into();
CodecEncode ==
    /\ codec.ta = None
    /\ \E pad_a \in IdSamples, pad_b \in IdSamples :
         codec' = [codec EXCEPT !.ta = RouteToU64(codec.a, pad_a, codec.big_endian),
                                !.tb = RouteToU64(codec.b, pad_b, codec.big_endian)]
    /\ UNCHANGED <<poolVars, serverVars, userVars>>

\* let route: Route = token.into();
CodecDecode ==
    /\ codec.ta # None
    /\ codec.da = None
    /\ codec' = [codec EXCEPT !.da = U64ToRoute(codec.ta, codec.big_endian),
                              !.db = U64ToRoute(codec.tb, codec.big_endian)]
    /\ UNCHANGED <<poolVars, serverVars, userVars>>

NextCodec == CodecEncode \/ CodecDecode

SpecCodec == InitCodec /\ [][NextCodec]_vars

(***************************************************************************)
(* Properties.                                                             *)
(***************************************************************************)

\* C1: in every state of the reactor no slot index is held by two live
\* guards, at most `count` guards are live, each guard covers exactly the
\* bytes [idx*size, (idx+1)*size) and the ranges of any two live connections
\* are disjoint.
C1_LiveGuardsDisjoint ==
    /\ Cardinality({clients[id].buffer : id \in DOMAIN clients}) <= count
    /\ Cardinality(DOMAIN clients) <= count
    /\ \A id \in DOMAIN clients :
         LET g == clients[id].buffer
         IN  /\ g.idx \in 0..(count - 1)
             /\ GuardBytes(g) = (g.idx * BUFFER_SIZE)..((g.idx + 1) * BUFFER_SIZE - 1)
    /\ \A i \in DOMAIN clients, j \in DOMAIN clients :
         i # j => /\ clients[i].buffer.idx # clients[j].buffer.idx
                  /\ GuardBytes(clients[i].buffer) \cap GuardBytes(clients[j].buffer) = {}

\* two connections are live, the pool is exhausted and one of them has
\* already gone through a read completion
C1_Witness ==
    /\ Cardinality(DOMAIN clients) >= 2
    /\ free_indexes = <<>>
    /\ \E id \in DOMAIN clients : clients[id].state = "write"

\* C2: an acquire() returns a guard exactly when fewer than `count` guards
\* are live, so `count` acquisitions from a fresh pool succeed and the next
\* one returns None; and an acquire() that follows a refused acquire() and
\* one drop returns a guard.
C2_AcquireUntilExhausted ==
    /\ \A i \in DOMAIN acquired :
         acquired[i].op = "acquire" =>
           ((acquired[i].guard # None) <=> (acquired[i].live < count))
    /\ \A i \in DOMAIN acquired :
         (/\ i + 2 \in DOMAIN acquired
          /\ acquired[i].op = "acquire" /\ acquired[i].guard = None
          /\ acquired[i + 1].op = "drop"
          /\ acquired[i + 2].op = "acquire")
         => acquired[i + 2].guard # None

\* a pool of at least two slots was exhausted, refused an acquire, had one
\* guard dropped and gave a guard again
C2_Witness ==
    /\ count >= 2
    /\ Len(acquired) = 3
    /\ acquired[1].op = "acquire" /\ acquired[1].guard = None /\ acquired[1].live = count
    /\ acquired[2].op = "drop"
    /\ acquired[3].op = "acquire" /\ acquired[3].guard # None
    /\ Cardinality(guards) = count

\* C3: decoding the token of a route gives the route back, and two different
\* routes have different tokens.
C3_RouteRoundTrip ==
    /\ codec.da # None => (codec.da = codec.a /\ codec.db = codec.b)
    /\ (codec.ta # None /\ codec.a # codec.b) => codec.ta # codec.tb

\* a write route and a read route of the largest id, 2^32 - 1, were encoded
\* and decoded
C3_Witness ==
    /\ codec.da # None
    /\ codec.a = RouteClientWrite(<<2^16 - 1, 2^16 - 1>>)
    /\ codec.b = RouteClientRead(<<2^16 - 1, 2^16 - 1>>)

\* the latest step was Server::handle_client on a connection that was live
ClientStep == last.handler = "client" /\ last.state # "none"

\* the connection the latest step handled, as the step found it
Handled == last.before.clients[last.id]

\* the latest step pushed nothing and left the submission queue and the
\* kernel's operations alone
NothingSubmitted ==
    /\ last.pushed = <<>>
    /\ sq = last.before.sq
    /\ inflight = last.before.inflight

\* the latest step removed the handled connection and returned its slot, and
\* only its slot, to the free list
RemovedAndFreed ==
    /\ last.id \notin DOMAIN clients
    /\ DOMAIN clients = DOMAIN last.before.clients \ {last.id}
    /\ free_indexes = Append(last.before.free, Handled.buffer.idx)
    /\ Len(free_indexes) = Len(last.before.free) + 1

\* the latest step pushed exactly the entry `sqe`, the kernel took it, and
\* the connection is still in the table
SubmittedOnly(sqe) ==
    /\ last.pushed = <<sqe>>
    /\ sqe \in inflight
    /\ sqe \notin last.before.inflight
    /\ last.id \in DOMAIN clients

\* the latest step could not push or could not submit its entry: at most that
\* one entry is left in the submission queue, the kernel has not taken it,
\* and the connection is gone
SubmissionFailed ==
    /\ last.outcome = "removed"
    /\ last.id \notin DOMAIN clients
    /\ inflight = last.before.inflight
    /\ \/ last.pushed = <<>> /\ sq = last.before.sq /\ Len(sq) >= MaxSqEntries
       \/ Len(last.pushed) = 1 /\ sq = last.before.sq \o last.pushed

\* C4 as stated: a read completion of L > 0 bytes on a connection awaiting a
\* read submits exactly one write of the first L bytes of its own slot and
\* no read; a write completion of exactly L bytes on a connection awaiting
\* that write submits exactly one read and no write; the connection stays in
\* the table.
C4_EchoStepAlways ==
    /\ (ClientStep /\ last.state = "read" /\ last.cqe.result > 0) =>
         /\ SubmittedOnly(
               [op |-> "WriteFixed", fd |-> Handled.socket,
                addr |-> Handled.buffer.start, len |-> last.cqe.result,
                buf_index |-> Handled.buffer.idx, user_data |-> RouteClient(last.id)])
         /\ clients[last.id].state = "write"
    /\ (ClientStep /\ last.state = "write" /\ last.cqe.result = Handled.write_len) =>
         /\ SubmittedOnly(
               [op |-> "ReadFixed", fd |-> Handled.socket,
                addr |-> Handled.buffer.start, len |-> BUFFER_SIZE,
                buf_index |-> Handled.buffer.idx, user_data |-> RouteClient(last.id)])
         /\ clients[last.id].state = "read"

\* C4 as amended: the same, unless the push or the submit of that entry
\* fails, in which case the connection is removed and the kernel takes
\* nothing.
C4_EchoStep ==
    /\ (ClientStep /\ last.state = "read" /\ last.cqe.result > 0) =>
         \/ /\ SubmittedOnly(
                  [op |-> "WriteFixed", fd |-> Handled.socket,
                   addr |-> Handled.buffer.start, len |-> last.cqe.result,
                   buf_index |-> Handled.buffer.idx,
                   user_data |-> RouteClient(last.id)])
            /\ clients[last.id].state = "write"
            /\ clients[last.id].write_len = last.cqe.result
         \/ SubmissionFailed
    /\ (ClientStep /\ last.state = "write" /\ last.cqe.result = Handled.write_len) =>
         \/ /\ SubmittedOnly(
                  [op |-> "ReadFixed", fd |-> Handled.socket,
                   addr |-> Handled.buffer.start, len |-> BUFFER_SIZE,
                   buf_index |-> Handled.buffer.idx,
                   user_data |-> RouteClient(last.id)])
            /\ clients[last.id].state = "read"
         \/ SubmissionFailed

\* a write of 2 bytes was confirmed in full and the connection is reading
\* again
C4_Witness ==
    /\ ClientStep /\ last.state = "write" /\ last.outcome = "pending"
    /\ last.cqe.result >= 2
    /\ last.cqe.result = Handled.write_len
    /\ clients[last.id].state = "read"

\* C5: a read completion of 0 on a live connection removes it, submits
\* nothing, and adds its slot, and no other, to the free list.
C5_ZeroReadRemoves ==
    (ClientStep /\ last.state = "read" /\ last.cqe.result = 0) =>
       /\ last.outcome = "removed"
       /\ RemovedAndFreed
       /\ NothingSubmitted

\* a read of 0 was processed for a connection that owned slot 0 while another
\* connection was live
C5_Witness ==
    /\ ClientStep /\ last.state = "read" /\ last.cqe.result = 0
    /\ Handled.buffer.idx = 0
    /\ DOMAIN clients # {}

\* C6: a write completion whose result differs from the expected length
\* removes the connection and frees its slot; neither a read nor another
\* write is submitted.
C6_WriteMismatchRemoves ==
    (ClientStep /\ last.state = "write" /\ last.cqe.result # Handled.write_len) =>
       /\ last.outcome = "removed"
       /\ RemovedAndFreed
       /\ NothingSubmitted

\* a write of 2 bytes was reported as 1 byte written
C6_Witness ==
    /\ ClientStep /\ last.state = "write"
    /\ last.cqe.result > 0
    /\ last.cqe.result < Handled.write_len
    /\ last.outcome = "removed"

\* C7: a successful accept completion that finds no free slot creates no
\* connection, submits nothing, does not advance the id counter, closes the
\* new socket, and the loop goes on.
C7_ExhaustedAcceptRejects ==
    (last.handler = "accept" /\ last.cqe.result >= 0 /\ last.before.free = <<>>) =>
       /\ last.outcome = "rejected"
       /\ clients = last.before.clients
       /\ free_indexes = <<>>
       /\ client_id_counter = last.before.counter
       /\ NothingSubmitted
       /\ last.cqe.result \in last.before.open_fds
       /\ last.cqe.result \notin open_fds
       /\ open_fds = last.before.open_fds \ {last.cqe.result}
       /\ pc = "loop"

\* an accept was rejected while every slot was held by a live connection
C7_Witness ==
    /\ last.handler = "accept" /\ last.cqe.result >= 0
    /\ last.before.free = <<>>
    /\ Cardinality(DOMAIN clients) = count
    /\ last.outcome = "rejected"

\* the operations of connection id that are outstanding in `kernel` and
\* `completions`: taken by the kernel, or completed and not yet processed
OutstandingIn(id, kernel, completions) ==
    LET ForId(cqe) == cqe.user_data = RouteClient(id)
    IN  [taken |-> {sqe \in kernel : sqe.user_data = RouteClient(id)},
         done |-> SelectSeq(completions, ForId)]

\* the latest step processed a terminal completion: an error, a zero length
\* or a write length that differs from the expected one
TerminalStep ==
    /\ ClientStep
    /\ \/ last.cqe.result <= 0
       \/ last.state = "write" /\ last.cqe.result # Handled.write_len

\* C9: a terminal completion of one connection leaves every other live
\* connection as it was (table entry with state, expected length and slot,
\* and outstanding operation) and leaves the multi-shot accept outstanding.
C9_FailureIsolated ==
    TerminalStep =>
       /\ \A id \in DOMAIN last.before.clients \ {last.id} :
            /\ id \in DOMAIN clients
            /\ clients[id] = last.before.clients[id]
            /\ OutstandingIn(id, inflight, cq)
                 = OutstandingIn(id, last.before.inflight, last.before.cq)
       /\ (AcceptMultiSqe \in last.before.inflight) = (AcceptMultiSqe \in inflight)

\* a terminal completion was processed while another connection was live and
\* the accept was outstanding
C9_Witness ==
    /\ TerminalStep
    /\ DOMAIN clients # {}
    /\ AcceptMultiSqe \in inflight

\* C10: every live connection has exactly one operation outstanding (taken
\* by the kernel, or completed and waiting in the completion queue): a read
\* while it awaits a read, a write while it awaits a write.
C10_OneOutstanding ==
    \A id \in DOMAIN clients :
       LET out == OutstandingIn(id, inflight, cq)
           ops == {sqe.op : sqe \in out.taken} \cup {out.done[i].op : i \in DOMAIN out.done}
       IN  /\ Cardinality(out.taken) + Len(out.done) = 1
           /\ ops = {IF clients[id].state = "read" THEN "ReadFixed" ELSE "WriteFixed"}

\* two connections are live, one awaiting a read and one awaiting a write
C10_Witness ==
    \E i \in DOMAIN clients, j \in DOMAIN clients :
       /\ clients[i].state = "read"
       /\ clients[j].state = "write"

\* the latest step was Server::handle_accept on a successful completion that
\* found a free slot
AcceptStep ==
    /\ last.handler = "accept"
    /\ last.cqe.result >= 0
    /\ last.before.free # <<>>

\* the latest step inserted exactly one connection under the id the counter
\* showed, an id no live connection had; it owns the slot popped from the free
\* list and the accepted socket, awaits a read, and exactly one read of its
\* whole slot, tagged with its id, was pushed and taken by the kernel
InsertedOne ==
    /\ last.outcome = "inserted"
    /\ last.id = last.before.counter
    /\ last.id \notin DOMAIN last.before.clients
    /\ DOMAIN clients = DOMAIN last.before.clients \cup {last.id}
    /\ \A id \in DOMAIN last.before.clients : clients[id] = last.before.clients[id]
    /\ clients[last.id] =
         NewClient(last.id, last.cqe.result, MakeGuard(VecPop(last.before.free)))
    /\ clients[last.id].state = "read"
    /\ free_indexes = VecPopRest(last.before.free)
    /\ Len(free_indexes) = Len(last.before.free) - 1
    /\ last.pushed =
         <<[op |-> "ReadFixed", fd |-> last.cqe.result,
            addr |-> VecPop(last.before.free) * BUFFER_SIZE, len |-> BUFFER_SIZE,
            buf_index |-> VecPop(last.before.free),
            user_data |-> RouteClient(last.id)]>>
    /\ last.pushed[1] \in inflight
    /\ last.pushed[1] \notin last.before.inflight

\* the latest step could not push or submit the first read: no connection was
\* inserted, the slot is back on the free list, the socket is closed and the
\* kernel took nothing
FirstReadFailed ==
    /\ last.outcome = "failed"
    /\ clients = last.before.clients
    /\ Len(free_indexes) = Len(last.before.free)
    /\ Range(free_indexes) = Range(last.before.free)
    /\ inflight = last.before.inflight
    /\ last.cqe.result \notin open_fds
    /\ \/ last.pushed = <<>> /\ sq = last.before.sq /\ Len(sq) >= MaxSqEntries
       \/ Len(last.pushed) = 1 /\ sq = last.before.sq \o last.pushed

\* C11 as stated: a successful accept completion processed while a slot is
\* free inserts exactly one connection under a fresh id, with one newly
\* acquired slot, one read submitted for it, awaiting a read.
C11_AcceptInsertsAlways == AcceptStep => InsertedOne

\* C11 as amended: the same, unless the push or the submit of the first read
\* fails, in which case no connection is inserted and the slot is returned.
C11_AcceptInserts == AcceptStep => (InsertedOne \/ FirstReadFailed)

\* a second connection was inserted next to a live one and took the last
\* free slot
C11_Witness ==
    /\ AcceptStep
    /\ last.outcome = "inserted"
    /\ Cardinality(DOMAIN clients) = 2
    /\ free_indexes = <<>>

\* a < b on u32
U32Less(a, b) == a[2] < b[2] \/ (a[2] = b[2] /\ a[1] < b[1])

\* the latest step was Server::handle_accept and it took an id from the counter
IdAssigned == last.handler = "accept" /\ last.outcome \in {"inserted", "failed"}

\* C12: every id assignment leaves the counter higher than it was, and the id
\* it assigns is the id of no live connection, so that the insertion replaces
\* no entry of the table.
C12_IdsNeverReused ==
    IdAssigned =>
       /\ U32Less(last.before.counter, client_id_counter)
       /\ last.id \notin DOMAIN last.before.clients

\* after 2^32 assignments the counter is back at 0, the first connection is
\* still live, and a new connection was inserted under its id 0 in its place
C12_Witness ==
    /\ IdAssigned
    /\ last.outcome = "inserted"
    /\ last.id = U32Zero
    /\ U32Zero \in DOMAIN last.before.clients
    /\ clients[U32Zero] # last.before.clients[U32Zero]
    /\ Cardinality(DOMAIN clients) = Cardinality(DOMAIN last.before.clients)

\* the operation a connection in `state` is waiting for
PendingOp(state) == IF state = "read" THEN "ReadFixed" ELSE "WriteFixed"

\* the tag the routing scheme of common.rs gives an operation of connection id
RouteFor(op, id) == IF op = "ReadFixed" THEN RouteClientRead(id) ELSE RouteClientWrite(id)

\* C13: every read pushed for connection id is tagged ClientRead(id) and every
\* write ClientWrite(id); and a completion handed to a live connection
\* carries the category of, and completes, the operation the connection is
\* waiting for.
C13_TagMatchesPending ==
    /\ (last.handler \in {"accept", "client"}) =>
          \A i \in DOMAIN last.pushed :
             last.pushed[i].user_data = RouteFor(last.pushed[i].op, last.id)
    /\ ClientStep =>
          /\ last.cqe.user_data = RouteFor(PendingOp(last.state), last.id)
          /\ last.cqe.op = PendingOp(last.state)

\* the completion of a read was handed to a connection that was waiting for
\* its write, and the connection was removed for it
C13_Witness ==
    /\ ClientStep
    /\ last.state = "write"
    /\ last.cqe.op = "ReadFixed"
    /\ last.outcome = "removed"

\* the multi-shot accept has ended: the kernel does not hold it, it is not
\* queued for submission and none of its completions is waiting
AcceptOver ==
    /\ pc = "loop"
    /\ AcceptMultiSqe \notin inflight
    /\ AcceptMultiSqe \notin Range(sq)
    /\ \A i \in DOMAIN cq : cq[i].user_data # RouteAccept

\* C14: processing an accept completion without the `more` flag submits no
\* accept and leaves the accept ended; once it has ended it stays ended and
\* no connection is added to the table.
C14_NoMoreAccepts ==
    /\ []((last.handler = "accept" /\ ~last.cqe.more /\ last.outcome # "panicked") =>
            /\ AcceptOver
            /\ AcceptMultiSqe \notin Range(last.pushed))
    /\ [][AcceptOver => (AcceptOver' /\ DOMAIN clients' \subseteq DOMAIN clients)]_vars

\* after the accept has ended, a connection accepted earlier had a read
\* completed and its echo submitted
C14_Witness ==
    /\ AcceptOver
    /\ ClientStep
    /\ last.state = "read"
    /\ last.outcome = "pending"
    /\ Cardinality(DOMAIN clients) = 2

\* C15: an accept completion with a negative result leaves the table, the
\* free list, the counter, the sockets, the submission queue and the
\* operations the kernel holds as they were; the completion is consumed and
\* the loop goes on.
C15_AcceptErrorIgnored ==
    (last.handler = "accept" /\ last.cqe.result < 0) =>
       /\ last.outcome = "accept_error"
       /\ clients = last.before.clients
       /\ free_indexes = last.before.free
       /\ client_id_counter = last.before.counter
       /\ open_fds = last.before.open_fds
       /\ NothingSubmitted
       /\ \A id \in DOMAIN clients :
            OutstandingIn(id, inflight, cq)
              = OutstandingIn(id, last.before.inflight, last.before.cq)
       /\ cq = Tail(last.before.cq)
       /\ pc = "loop"

\* an accept error was processed while a connection was live, with its
\* operation outstanding, and the accept still armed
C15_Witness ==
    /\ last.handler = "accept"
    /\ last.cqe.result < 0
    /\ last.cqe.more
    /\ DOMAIN clients # {}
    /\ AcceptMultiSqe \in inflight

\* C16: a completion tagged with an id that is not in the table leaves the
\* table, the free list, the counter and the sockets as they were, submits
\* nothing, and the loop goes on.
C16_MissingClientIgnored ==
    (last.handler = "client" /\ last.id \notin DOMAIN last.before.clients) =>
       /\ last.outcome = "missing"
       /\ clients = last.before.clients
       /\ free_indexes = last.before.free
       /\ client_id_counter = last.before.counter
       /\ open_fds = last.before.open_fds
       /\ NothingSubmitted
       /\ cq = Tail(last.before.cq)
       /\ pc = "loop"

\* the completion of an operation of a connection that had already been
\* removed was processed while another connection was live
C16_Witness ==
    /\ last.handler = "client"
    /\ last.outcome = "missing"
    /\ DOMAIN clients # {}
    /\ last.id \notin DOMAIN clients

\* the connections that were in the table before the latest step of the
\* reactor and are not in it now
Removed ==
    IF last.handler \in {"accept", "client"}
      THEN DOMAIN last.before.clients \ DOMAIN clients
      ELSE {}

\* C17 as stated: a connection leaves the table only in a step that processes
\* a completion tagged with its own id whose result is an error, zero, or a
\* write length other than the expected one.
C17_RemovedOnlyByTerminal ==
    \A id \in Removed : TerminalStep /\ last.id = id

\* C17 as amended: a connection leaves the table only in a step that
\* processes a completion tagged with its own id, and either the result is
\* terminal or the connection's next operation could not be pushed or
\* submitted; a step of the kernel or of a peer removes none.
C17_RemovedOnlyByOwnStep ==
    /\ [](\A id \in Removed :
            /\ ClientStep
            /\ last.id = id
            /\ (TerminalStep \/ SubmissionFailed))
    /\ [][last'.handler \notin {"accept", "client"} => clients' = clients]_vars

\* a connection was removed by its own zero-length read while another one,
\* accepted after it, stayed in the table
C17_Witness ==
    /\ Removed # {}
    /\ last.cqe.result = 0
    /\ DOMAIN clients # {}
    /\ \A id \in DOMAIN clients : U32Less(last.id, id)

\* the latest step was an iteration of the loop of Server::run
Iteration == last.handler \in {"accept", "client", "idle"}

\* the latest iteration took the oldest completion, and only it, off the
\* queue and processed it
TookOldest ==
    /\ last.before.cq # <<>>
    /\ last.handler \in {"accept", "client"}
    /\ last.cqe = Head(last.before.cq)
    /\ cq = Tail(last.before.cq)

\* the latest iteration found no completion and did nothing
TookNothing ==
    /\ last.before.cq = <<>>
    /\ last.handler = "idle"
    /\ Fields = last.before
    /\ pc = "loop"

HeldSlots == {clients[id].buffer.idx : id \in DOMAIN clients}

\* C19: the free slots and the live connections add up to `count`; every
\* connection holds one slot of its own, and every slot is either held by a
\* connection or on the free list, there exactly once.
C19_SlotsConserved ==
    /\ Len(free_indexes) + Cardinality(DOMAIN clients) = count
    /\ Cardinality(HeldSlots) = Cardinality(DOMAIN clients)
    /\ Cardinality(Range(free_indexes)) = Len(free_indexes)
    /\ HeldSlots \cap Range(free_indexes) = {}
    /\ HeldSlots \cup Range(free_indexes) = 0..(count - 1)

\* a connection was destroyed after a submission had failed and left its
\* entry queued; one connection is still live and one slot is free
C19_Witness ==
    /\ ClientStep
    /\ last.outcome = "removed"
    /\ Cardinality(DOMAIN clients) = 1
    /\ Len(free_indexes) = 1
    /\ sq # <<>>

\* the latest step had an operation to submit for a connection (its first
\* read, or the write or read that follows a completion) and the push or the
\* submit failed: nothing was pushed, or the entry is still queued
PushOrSubmitFailed ==
    /\ AcceptStep \/ (ClientStep /\ ~TerminalStep)
    /\ last.outcome # "panicked"
    /\ \/ last.pushed = <<>>
       \/ last.pushed[1] \in Range(sq)

\* the slot of the connection the latest step was about
StepSlot ==
    IF last.handler = "accept" THEN VecPop(last.before.free) ELSE Handled.buffer.idx

\* C20: when the push or the submit of a connection's operation fails, the
\* connection is not in the table after the step, its slot is on the free
\* list, its socket is closed, the other connections are as they were and
\* the loop goes on.
C20_SubmitFailureDropsConnection ==
    PushOrSubmitFailed =>
       /\ last.id \notin DOMAIN clients
       /\ StepSlot \in Range(free_indexes)
       /\ Len(free_indexes) + Cardinality(DOMAIN clients) = count
       /\ last.cqe.result \notin open_fds \/ last.handler = "client"
       /\ last.handler = "client" => Handled.socket \notin open_fds
       /\ \A id \in DOMAIN last.before.clients \ {last.id} :
            id \in DOMAIN clients /\ clients[id] = last.before.clients[id]
       /\ inflight = last.before.inflight
       /\ pc = "loop"

\* the push of a connection's first read failed on a full submission queue
C20_Witness ==
    /\ PushOrSubmitFailed
    /\ AcceptStep
    /\ last.pushed = <<>>
    /\ Len(sq) = MaxSqEntries

(***************************************************************************)
(* Progress.  The loop of Server::run never stops taking completions, and  *)
(* the kernel eventually completes the read or write of every connection   *)
(* (strongly: the completion queue is full only for a while).              *)
(***************************************************************************)
AllIds == {<<n, 0>> : n \in 0..(MaxAccepts - 1)}
AllSlots == 0..(MaxBuffers - 1)

\* the kernel completes an operation tagged with `id`
KernelCompleteFor(id) ==
    \E sqe \in inflight : sqe.user_data = RouteClient(id) /\ KernelComplete(sqe)

FairSpec ==
    /\ Spec
    /\ WF_vars(RunAccept)
    /\ WF_vars(RunClient)
    /\ \A id \in AllIds : SF_vars(KernelCompleteFor(id))

\* C8: once the peer of a live connection has closed, the connection is
\* eventually out of the table with its slot on the free list.
C8_ClosedEventuallyRemoved ==
    \A id \in AllIds, idx \in AllSlots :
       (/\ id \in DOMAIN clients
        /\ clients[id].buffer.idx = idx
        /\ clients[id].socket \in eof)
         ~> (id \notin DOMAIN clients /\ idx \in Range(free_indexes))

\* the read of a connection whose peer had closed completed with 0, and the
\* connection is gone with its slot free
C8_Witness ==
    /\ ClientStep /\ last.state = "read" /\ last.cqe.result = 0
    /\ last.id \notin DOMAIN clients
    /\ Handled.buffer.idx \in Range(free_indexes)

====
